---- MODULE Spec2Model ----
(***************************************************************************)
(* A model of harpy: actors, reactors and windows connected by streams.    *)
(*                                                                         *)
(* The component state is the set of fields the classes of src/harpy keep  *)
(* (_harpy_init_pending, _harpy_subscribers, _harpy_monitoring,            *)
(* _harpy_subscriptions, _harpy_window_panes).  Every message handler is   *)
(* one action.  Two kinds of specification use the handlers:               *)
(*   - component specifications (Spec, SpecActor, SpecReactor, SpecWindow) *)
(*     call the handlers of one component with inputs drawn from small     *)
(*     sets;                                                               *)
(*   - network specifications (SpecS1, SpecS2) run the scenarios of the    *)
(*     documentation over mailboxes that are FIFO per (sender, receiver)   *)
(*     pair and unordered across senders.                                  *)
(* Timestamps and durations are integers (the code uses float seconds).    *)
(***************************************************************************)
EXTENDS Integers, Sequences, FiniteSets, TLC

\* ------------------------------------------------------------------ bounds
\* longest subscriber list of one stream
MaxSubs == 4
\* longest monitoring list of an actor
MaxMon == 2
\* longest binding list (_harpy_subscriptions) of a reactor
MaxBind == 2
\* longest binding list (_harpy_subscriptions) of a window
MaxWinBind == 1
\* Emit messages a window handles in one run (keeps the accumulators finite)
MaxWinMsgs == 3
\* largest length and frequency of a window assigner
MaxLen == 3
\* timestamps given to windows_for range over -MaxTs..MaxTs
MaxTs == 6
\* most wakeups a looping actor has scheduled at one time
MaxTimers == 3
\* the calls of tick are counted modulo TickWrap
TickWrap == 3
\* messages the external code sends to a looping actor
MaxExt == 3

\* ------------------------------------------------------------- vocabulary
Sys == "sys"
Comps == {"P", "C", "K", "R", "W", "T"}
Addr == Comps \cup {Sys}
Streams == {"default", "a"}
Methods == {"f", "g"}
Values == {1, 2}
\* the other components a component specification takes its messages from
Peers == {"C", "K"}
Upstreams == {"P", "R"}
None == "None"
NoError == "ok"

\* P, C, K and T are actors, R is a reactor, W is a window.
Kind(c) == IF c = "R" THEN "reactor" ELSE IF c = "W" THEN "window" ELSE "actor"
\* T is an actor of a class that @loop decorated
Looping(c) == c = "T"
\* SystemContext.thespianSystemBase as __init__ sets it, and another backend
DefaultBase == "multiprocTCPBase"
Bases == {DefaultBase, "simpleSystemBase", "multiprocQueueBase"}

VARIABLES
  spawned,        \* components created so far (their __init__ ran)
  initPending,    \* [Comps -> BOOLEAN]: the attribute _harpy_init_pending exists
  subscribers,    \* [Comps -> [Streams -> Seq(Addr)]]: _harpy_subscribers
  monitoring,     \* [Comps -> Seq(<<addr, stream, method>>)]: Actor._harpy_monitoring
  acc,            \* [Comps -> Seq(Int)]: what the callback receive_fn collected
  reactorClass,   \* the class @reacts_to built: [sources, dag], the dag being
                  \* what build_dag returns: [dict, items], an item
                  \* <<stream, source, factor>> standing for the observable
                  \* source.pipe(map(v -> factor * v)) (stream None when
                  \* build_dag returns the observable itself, not a dict)
  subscriptions,  \* [Comps -> Seq]: _harpy_subscriptions, <<addr, stream, source>>
                  \* for a reactor and <<addr, stream>> for a window
  pipeline,       \* [Comps -> Seq(<<stream, source, factor>>)]: the terminal
                  \* subscriptions __init_actor__ installed on the dag
  assigner,       \* the window assigner: [kind, frequency, length, offset]
  panes,          \* _harpy_window_panes in insertion order: Seq([win, key, acc])
  nmsgs,          \* Emit messages the window handled
  timers,         \* [Comps -> Nat]: wakeups scheduled (wakeupAfter) and not yet delivered
  ticks,          \* [Comps -> 0..(TickWrap - 1)]: calls of tick, counted modulo TickWrap
  system,         \* SystemContext.system: None, or the backend the ActorSystem runs on
  thespianSystemBase, \* SystemContext.thespianSystemBase
  hist,           \* the messages a scripted run handled so far
  snap,           \* what a scripted run started from
  ctx,            \* currentContext.ctx of a process: Sys (the SystemContext) or the
                  \* component whose ActorContext is current
  prev,           \* [Comps -> Addr or None]: ActorContext.prev
  running,        \* [Comps -> "idle", "with", "plain"]: where the component's
                  \* handler stands: not running, inside its `with
                  \* self._harpy_context` block, or in a body without one
  handling,       \* [Comps -> message type or None]: what the handler handles
  before,         \* [Comps -> Addr or None]: currentContext.ctx when the handler began
  sentVia,        \* [self, ctx]: the last Ref.send of user code and the
                  \* context currentContext.ctx gave it
  chan,           \* [Addr \X Comps -> Seq(message)]: messages in flight, per pair
  sysPc,          \* position of the external (system context) code of a scenario
  out,            \* messages the last handler sent: Seq([dst, msg])
  called,         \* callbacks the last handler invoked: Seq(<<method, value>>)
  raised,         \* the exception the last handler raised, or NoError
  pushed,         \* Subject.on_next calls of the last handler: Seq(<<source, value>>)
  completed,      \* window_complete calls of the last handler: Seq([win, key, acc])
  assigned,       \* the panes windows_for returned to the last handler
  last            \* the last handler run: [op, self, sender, stream, value, ref, method]

baseVars == <<spawned, initPending, subscribers>>
actorVars == <<monitoring, acc>>
reactorVars == <<subscriptions, pipeline>>
windowVars == <<panes, nmsgs>>
classVars == <<reactorClass, assigner>>
loopVars == <<timers, ticks>>
compVars == <<baseVars, actorVars, reactorVars, windowVars, classVars, loopVars>>
netVars == <<chan, sysPc>>
sysCtxVars == <<system, thespianSystemBase>>
scriptVars == <<hist, snap>>
ctxVars == <<ctx, prev, running, handling, before, sentVia>>
\* what a component specification leaves alone
envVars == <<netVars, sysCtxVars, scriptVars, ctxVars>>
obsVars == <<out, called, raised, last, pushed, completed, assigned>>
vars == <<compVars, envVars, obsVars>>

\* ---------------------------------------------------------------- helpers
Min(S) == CHOOSE x \in S : \A y \in S : x <= y

\* (mutant) a remove that drops every occurrence of x
RemoveAll(s, x) == SelectSeq(s, LAMBDA y : y # x)

\* list.remove(x): the list without the first occurrence of x
RemoveFirst(s, x) ==
  LET idx == {i \in 1..Len(s) : s[i] = x}
  IN  IF idx = {} THEN s
      ELSE [i \in 1..(Len(s) - 1) |-> IF i < Min(idx) THEN s[i] ELSE s[i + 1]]

Occurs(s, x) == \E i \in 1..Len(s) : s[i] = x
Count(s, x) == Cardinality({i \in 1..Len(s) : s[i] = x})

\* --------------------------------------------------------------- messages
Msg(type, stream, value, ref, source, method) ==
  [type |-> type, stream |-> stream, value |-> value, ref |-> ref,
   source |-> source, method |-> method]

\* Init carries spawn's arguments: (ref, stream) for an actor made by @monitor
InitMsg(ref, stream) == Msg("Init", stream, 0, ref, None, None)
EmitMsg(value, stream) == Msg("Emit", stream, value, None, None, None)
ReactToMsg(ref, source, stream) == Msg("ReactTo", stream, 0, ref, source, None)
SubscribeMsg(stream) == Msg("Subscribe", stream, 0, None, None, None)
UnsubscribeMsg(stream) == Msg("Unsubscribe", stream, 0, None, None, None)
\* user-defined messages, handed to the receive method of an actor
TickMsg == Msg("Tick", "default", 0, None, None, None)
EmitCmd(value, stream) == Msg("EmitCmd", stream, value, None, None, None)
MonitorCmd(ref, method, stream) == Msg("MonitorCmd", stream, 0, ref, None, method)
UnmonitorCmd(ref, stream) == Msg("UnmonitorCmd", stream, 0, ref, None, None)
\* a user message on which receive calls target.react_to(ref, source, stream);
\* the field method carries the target
ReactCmd(target, ref, source, stream) == Msg("ReactCmd", stream, 0, ref, source, target)
\* thespian's WakeupMessage, with the payload None that @loop schedules
WakeupMessage == Msg("Wakeup", "default", 0, None, None, None)

Send(dst, msg) == [dst |-> dst, msg |-> msg]

\* what a handler leaves behind for the observer
ObserveFull(self, sender, msg, sends, calls, err, pushes, completions, windows) ==
  /\ out' = sends
  /\ assigned' = windows
  /\ called' = calls
  /\ raised' = err
  /\ pushed' = pushes
  /\ completed' = completions
  /\ last' = [op |-> msg.type, self |-> self, sender |-> sender,
              stream |-> msg.stream, value |-> msg.value, ref |-> msg.ref,
              source |-> msg.source, method |-> msg.method]

ObserveAll(self, sender, msg, sends, calls, err, pushes, completions) ==
  ObserveFull(self, sender, msg, sends, calls, err, pushes, completions, <<>>)

Observe(self, sender, msg, sends, calls, err) ==
  ObserveAll(self, sender, msg, sends, calls, err, <<>>, <<>>)

\* ------------------------------------------------------------- BaseActor
\* (mutant) emit over the set of subscribers: one Emit per distinct ref
emit_per_ref(subs, val, stream) ==
  LET l == subs[stream]
      firsts == SelectSeq([i \in 1..Len(l) |-> <<i, l[i]>>],
                          LAMBDA p : ~\E j \in 1..(p[1] - 1) : l[j] = p[2])
  IN  [i \in 1..Len(firsts) |-> Send(firsts[i][2], EmitMsg(val, stream))]

\* (mutant) emit that stops after the first subscriber
emit_first(subs, val, stream) ==
  IF subs[stream] = <<>> THEN <<>>
  ELSE <<Send(subs[stream][1], EmitMsg(val, stream))>>

\* BaseActor.emit: one Emit per entry of the stream's subscriber list, in order
emit(subs, val, stream) ==
  [i \in 1..Len(subs[stream]) |-> Send(subs[stream][i], EmitMsg(val, stream))]

\* Actor._find_method: the loop variable `stream` shadows the parameter, so the
\* test `stream == stream` compares each triple's stream with itself
find_method(mon, sender, stream) ==
  LET idx == {i \in 1..Len(mon) : mon[i][1] = sender /\ mon[i][2] = mon[i][2]}
  IN  IF idx = {} THEN None ELSE mon[Min(idx)][3]

\* Actor.monitor: the list after the append, and the Subscribe it sends
monitor_list(mon, ref, method, stream) == Append(mon, <<ref, stream, method>>)
monitor_sends(ref, stream) == <<Send(ref, SubscribeMsg(stream))>>

\* Actor.unmonitor: list.remove raises ValueError when the triple is absent
unmonitor_ok(mon, ref, stream) ==
  Occurs(mon, <<ref, stream, find_method(mon, ref, stream)>>)
unmonitor_list(mon, ref, stream) ==
  RemoveFirst(mon, <<ref, stream, find_method(mon, ref, stream)>>)
unmonitor_sends(mon, ref, stream) ==
  IF unmonitor_ok(mon, ref, stream) THEN <<Send(ref, UnsubscribeMsg(stream))>>
  ELSE <<>>

\* (mutant) the terminal observers all emit on the last stream of the loop
subscribe_dag_last_stream(dag) ==
  IF dag.dict
  THEN [i \in 1..Len(dag.items) |->
          <<dag.items[Len(dag.items)][1], dag.items[i][2], dag.items[i][3]>>]
  ELSE << <<"default", dag.items[1][2], dag.items[1][3]>> >>

\* Reactor.__init_actor__ after build_dag: one terminal observer per item of a
\* dict, emitting on the item's stream (the lambda binds s=stream), or one
\* observer emitting on "default" for a single observable
subscribe_dag(dag) ==
  IF dag.dict
  THEN [i \in 1..Len(dag.items) |->
          <<dag.items[i][1], dag.items[i][2], dag.items[i][3]>>]
  ELSE << <<"default", dag.items[1][2], dag.items[1][3]>> >>

\* (mutant) an Init handler without the init-once test
receiveMsg_InitMsg_unguarded(self, sender, msg) ==
  LET mon == Kind(self) = "actor" /\ msg.ref # None
  IN  /\ initPending' = [initPending EXCEPT ![self] = FALSE]
      /\ monitoring' = IF mon
           THEN [monitoring EXCEPT ![self] =
                   monitor_list(@, msg.ref, "receive_fn", msg.stream)]
           ELSE monitoring
      /\ pipeline' = IF Kind(self) = "reactor"
           THEN [pipeline EXCEPT ![self] = subscribe_dag(reactorClass.dag)]
           ELSE pipeline
      /\ timers' = IF Looping(self) THEN [timers EXCEPT ![self] = @ + 1] ELSE timers
      /\ UNCHANGED <<spawned, subscribers, acc, subscriptions, windowVars, classVars, ticks>>
      /\ Observe(self, sender, msg,
                 IF mon THEN monitor_sends(msg.ref, msg.stream) ELSE <<>>,
                 <<>>, NoError)

\* BaseActor.receiveMsg_InitMsg, with __init_actor__ of the receiver's class:
\* Actor.__init_actor__ and Window.__init_actor__ do nothing; the one @monitor
\* builds monitors (ref, stream); Reactor.__init_actor__ calls build_dag and
\* subscribes one terminal observer per returned observable; the one @loop
\* builds (wrapped_init) runs the class's own and then send_self_after(time)
receiveMsg_InitMsg(self, sender, msg) ==
  LET first == initPending[self]
      mon == first /\ Kind(self) = "actor" /\ msg.ref # None
  IN  /\ initPending' = [initPending EXCEPT ![self] = FALSE]
      /\ monitoring' = IF mon
           THEN [monitoring EXCEPT ![self] =
                   monitor_list(@, msg.ref, "receive_fn", msg.stream)]
           ELSE monitoring
      /\ pipeline' = IF first /\ Kind(self) = "reactor"
           THEN [pipeline EXCEPT ![self] = subscribe_dag(reactorClass.dag)]
           ELSE pipeline
      /\ timers' = IF first /\ Looping(self)
           THEN [timers EXCEPT ![self] = @ + 1]
           ELSE timers
      /\ UNCHANGED <<spawned, subscribers, acc, subscriptions, windowVars, classVars, ticks>>
      /\ Observe(self, sender, msg,
                 IF mon THEN monitor_sends(msg.ref, msg.stream) ELSE <<>>,
                 <<>>,
                 IF first THEN NoError ELSE "RuntimeError")

\* BaseActor.receiveMsg_SubscribeMsg
receiveMsg_SubscribeMsg(self, sender, msg) ==
  /\ Len(subscribers[self][msg.stream]) < MaxSubs
  /\ subscribers' = [subscribers EXCEPT ![self][msg.stream] = Append(@, sender)]
  /\ UNCHANGED <<spawned, initPending, actorVars, reactorVars, windowVars, classVars, loopVars>>
  /\ Observe(self, sender, msg, <<>>, <<>>, NoError)

\* BaseActor.receiveMsg_UnsubscribeMsg: list.remove raises ValueError when the
\* sender is not in the list
receiveMsg_UnsubscribeMsg(self, sender, msg) ==
  /\ subscribers' = [subscribers EXCEPT ![self][msg.stream] = RemoveFirst(@, sender)]
  /\ UNCHANGED <<spawned, initPending, actorVars, reactorVars, windowVars, classVars, loopVars>>
  /\ Observe(self, sender, msg, <<>>, <<>>,
             IF Occurs(subscribers[self][msg.stream], sender)
             THEN NoError ELSE "ValueError")

\* ------------------------------------------------------------------ Actor
\* the body of the user's receive(msg): Tick emits 1, 2, 3 on "default"; the
\* commands call emit, monitor and unmonitor with the arguments they carry
receive_sends(self, msg) ==
  CASE msg.type = "Tick" ->
         emit(subscribers[self], 1, "default") \o emit(subscribers[self], 2, "default")
           \o emit(subscribers[self], 3, "default")
    [] msg.type = "EmitCmd" -> emit(subscribers[self], msg.value, msg.stream)
    [] msg.type = "MonitorCmd" -> monitor_sends(msg.ref, msg.stream)
    [] msg.type = "UnmonitorCmd" -> unmonitor_sends(monitoring[self], msg.ref, msg.stream)
    [] msg.type = "ReactCmd" ->
         <<Send(msg.method, ReactToMsg(msg.ref, msg.source, msg.stream))>>
    [] OTHER -> <<>>

receive_monitoring(self, msg) ==
  CASE msg.type = "MonitorCmd" ->
         monitor_list(monitoring[self], msg.ref, msg.method, msg.stream)
    [] msg.type = "UnmonitorCmd" ->
         unmonitor_list(monitoring[self], msg.ref, msg.stream)
    [] OTHER -> monitoring[self]

receive_error(self, msg) ==
  IF msg.type = "UnmonitorCmd" /\ ~unmonitor_ok(monitoring[self], msg.ref, msg.stream)
  THEN "ValueError" ELSE NoError

\* (mutant) a receive that calls tick and schedules nothing
loop_receive_timers_once(self) == timers

\* the receive method @loop installs: send_self_after(time), then tick(self);
\* tick counts its calls
loop_receive_timers(self) ==
  IF Looping(self) THEN [timers EXCEPT ![self] = @ + 1] ELSE timers
loop_receive_ticks(self) ==
  IF Looping(self) THEN [ticks EXCEPT ![self] = (@ + 1) % TickWrap] ELSE ticks
loop_receive_calls(self) ==
  IF Looping(self) THEN << <<"tick", 0>> >> ELSE <<>>

\* Actor.receiveUnrecognizedMessage: `with self._harpy_context` needs the
\* attribute Init sets, so a user message before Init raises AttributeError
ActorReceiveUnrecognizedMessage(self, sender, msg) ==
  /\ msg.type = "MonitorCmd" => Len(monitoring[self]) < MaxMon
  /\ Looping(self) => timers[self] < MaxTimers
  /\ monitoring' = IF initPending[self] THEN monitoring
                   ELSE [monitoring EXCEPT ![self] = receive_monitoring(self, msg)]
  /\ timers' = IF initPending[self] THEN timers ELSE loop_receive_timers(self)
  /\ ticks' = IF initPending[self] THEN ticks ELSE loop_receive_ticks(self)
  /\ UNCHANGED <<baseVars, acc, reactorVars, windowVars, classVars>>
  /\ Observe(self, sender, msg,
             IF initPending[self] THEN <<>> ELSE receive_sends(self, msg),
             IF initPending[self] THEN <<>> ELSE loop_receive_calls(self),
             IF initPending[self] THEN "AttributeError" ELSE receive_error(self, msg))

\* Actor.receiveMsg_WakeupMessage: receive(msg.payload) under the actor's
\* context; the wakeup delivered is no longer scheduled
ActorReceiveMsg_WakeupMessage(self, sender, msg) ==
  /\ timers[self] > 0
  /\ timers' = [loop_receive_timers(self) EXCEPT ![self] = @ - 1]
  /\ ticks' = loop_receive_ticks(self)
  /\ UNCHANGED <<baseVars, actorVars, reactorVars, windowVars, classVars>>
  /\ Observe(self, sender, msg, <<>>, loop_receive_calls(self), NoError)

\* Actor.receiveMsg_EmitMsg: the callback found runs under the actor's context;
\* receive_fn (the function @monitor decorates) collects the values
ActorReceiveMsg_EmitMsg(self, sender, msg) ==
  LET method == find_method(monitoring[self], sender, msg.stream)
      runs == ~initPending[self] /\ method # None
  IN  /\ acc' = IF runs /\ method = "receive_fn"
                THEN [acc EXCEPT ![self] = Append(@, msg.value)] ELSE acc
      /\ UNCHANGED <<baseVars, monitoring, reactorVars, windowVars, classVars, loopVars>>
      /\ Observe(self, sender, msg, <<>>,
                 IF runs THEN <<<<method, msg.value>>>> ELSE <<>>,
                 IF initPending[self] THEN "AttributeError" ELSE NoError)

\* ---------------------------------------------------------------- Reactor
\* Reactor.receiveMsg_ReactToMsg: _harpy_sources[msg.source] raises KeyError for
\* a source the class does not declare; the binding is appended before
\* _send_subscribe, which needs the context Init sets
ReactorReceiveMsg_ReactToMsg(self, sender, msg) ==
  LET declared == msg.source \in reactorClass.sources
  IN  /\ declared => Len(subscriptions[self]) < MaxBind
      /\ subscriptions' = IF declared
           THEN [subscriptions EXCEPT ![self] =
                   Append(@, <<msg.ref, msg.stream, msg.source>>)]
           ELSE subscriptions
      /\ UNCHANGED <<baseVars, actorVars, pipeline, windowVars, classVars, loopVars>>
      /\ Observe(self, sender, msg,
                 IF declared /\ ~initPending[self]
                 THEN <<Send(msg.ref, SubscribeMsg(msg.stream))>> ELSE <<>>,
                 <<>>,
                 IF ~declared THEN "KeyError"
                 ELSE IF initPending[self] THEN "AttributeError" ELSE NoError)

\* (mutant) the loop of Reactor.receiveMsg_EmitMsg without the stream test
RECURSIVE on_next_calls_any_stream(_, _, _)
on_next_calls_any_stream(binds, sender, msg) ==
  IF binds = <<>> THEN <<>>
  ELSE (IF Head(binds)[1] = sender
        THEN << <<Head(binds)[3], msg.value>> >> ELSE <<>>)
       \o on_next_calls_any_stream(Tail(binds), sender, msg)

\* the loop of Reactor.receiveMsg_EmitMsg: the subj.on_next(msg.value) calls,
\* one per binding with ref == sender and stream == msg.stream, in list order
RECURSIVE on_next_calls(_, _, _)
on_next_calls(binds, sender, msg) ==
  IF binds = <<>> THEN <<>>
  ELSE (IF Head(binds)[1] = sender /\ Head(binds)[2] = msg.stream
        THEN << <<Head(binds)[3], msg.value>> >> ELSE <<>>)
       \o on_next_calls(Tail(binds), sender, msg)

\* (mutant) the terminal observers emit the value pushed, not the pipeline's
RECURSIVE on_next_unmapped(_, _, _, _)
on_next_unmapped(terminals, subs, source, value) ==
  IF terminals = <<>> THEN <<>>
  ELSE (IF Head(terminals)[2] = source
        THEN emit(subs, value, Head(terminals)[1]) ELSE <<>>)
       \o on_next_unmapped(Tail(terminals), subs, source, value)

\* Subject.on_next(value) on source: every terminal observer of a pipeline fed
\* by the source runs self.emit(factor * value, stream), in subscription order
RECURSIVE on_next(_, _, _, _)
on_next(terminals, subs, source, value) ==
  IF terminals = <<>> THEN <<>>
  ELSE (IF Head(terminals)[2] = source
        THEN emit(subs, Head(terminals)[3] * value, Head(terminals)[1]) ELSE <<>>)
       \o on_next(Tail(terminals), subs, source, value)

RECURSIVE reactor_sends(_, _, _)
reactor_sends(calls, terminals, subs) ==
  IF calls = <<>> THEN <<>>
  ELSE on_next(terminals, subs, Head(calls)[1], Head(calls)[2])
       \o reactor_sends(Tail(calls), terminals, subs)

\* Reactor.receiveMsg_EmitMsg
ReactorReceiveMsg_EmitMsg(self, sender, msg) ==
  LET calls == on_next_calls(subscriptions[self], sender, msg)
  IN  /\ UNCHANGED compVars
      /\ ObserveAll(self, sender, msg,
                    reactor_sends(calls, pipeline[self], subscribers[self]),
                    <<>>, NoError, calls, <<>>)

\* (mutant) a reactor that drops a message it does not recognise
ReactorReceiveUnrecognizedMessage_dropped(self, sender, msg) ==
  /\ UNCHANGED compVars
  /\ Observe(self, sender, msg, <<>>, <<>>, NoError)

\* Reactor.receiveUnrecognizedMessage: raise RuntimeError
ReactorReceiveUnrecognizedMessage(self, sender, msg) ==
  /\ UNCHANGED compVars
  /\ Observe(self, sender, msg, <<>>, <<>>, "RuntimeError")

\* ----------------------------------------------------------------- Window
\* the data records a window receives, and the user's timestamp(value),
\* key(value) and add_to_window(value, window) = (window or 0) + value.v;
\* the window argument is <<>> for Python's None and <<acc>> otherwise
Record(ts, key, v) == [ts |-> ts, key |-> key, v |-> v]
timestamp(value) == value.ts
key(value) == value.key
\* (mutant) an add_to_window that forgets the accumulator
add_to_window_overwrite(value, window) == value.v

add_to_window(value, window) == (IF window = <<>> THEN 0 ELSE window[1]) + value.v

\* (mutant) windows_for with a remainder that takes the sign of the dividend
fixed_windows_for_truncated(a, ts) ==
  LET d == ts - a.offset
      r == IF d >= 0 THEN d % a.length ELSE 0 - ((0 - d) % a.length)
  IN  << <<ts - r, ts - r + a.length>> >>

\* FixedWindow.windows_for
fixed_windows_for(a, ts) ==
  LET start == ts - ((ts - a.offset) % a.length)
  IN  << <<start, start + a.length>> >>

\* (mutant) the while loop with >= : it also takes the pane that ends at ts
RECURSIVE sliding_loop_inclusive(_, _, _)
sliding_loop_inclusive(a, ts, window) ==
  IF window >= ts - a.length
  THEN << <<window, window + a.length>> >>
         \o sliding_loop_inclusive(a, ts, window - a.frequency)
  ELSE <<>>

\* the while loop of SlidingWindow.windows_for
RECURSIVE sliding_loop(_, _, _)
sliding_loop(a, ts, window) ==
  IF window > ts - a.length
  THEN << <<window, window + a.length>> >> \o sliding_loop(a, ts, window - a.frequency)
  ELSE <<>>

\* (mutant) windows_for that returns the pane of the last start only
sliding_windows_for_last_start(a, ts) ==
  LET last_start == ts - ((ts - a.offset) % a.frequency)
  IN  << <<last_start, last_start + a.length>> >>

\* SlidingWindow.windows_for
sliding_windows_for(a, ts) ==
  sliding_loop(a, ts, ts - ((ts - a.offset) % a.frequency))

windows_for(a, ts) ==
  IF a.kind = "fixed" THEN fixed_windows_for(a, ts) ELSE sliding_windows_for(a, ts)

\* dict.get((window, key)): the accumulator stored, or None (<<>>)
pane_get(store, window, k) ==
  LET idx == {i \in 1..Len(store) : store[i].win = window /\ store[i].key = k}
  IN  IF idx = {} THEN <<>> ELSE <<store[Min(idx)].acc>>

\* dict[(window, key)] = updated: in place for a key the dict holds, else last
pane_put(store, window, k, updated) ==
  IF \E i \in 1..Len(store) : store[i].win = window /\ store[i].key = k
  THEN [i \in 1..Len(store) |->
          IF store[i].win = window /\ store[i].key = k
          THEN [store[i] EXCEPT !.acc = updated] ELSE store[i]]
  ELSE Append(store, [win |-> window, key |-> k, acc |-> updated])

\* (mutant) a first loop that opens a pane of its own for a value no window takes
RECURSIVE add_to_panes_orphan(_, _, _)
add_to_panes_orphan(store, windows, value) ==
  IF windows = <<>>
  THEN pane_put(store, <<timestamp(value), timestamp(value)>>, key(value),
                add_to_window(value, <<>>))
  ELSE IF Len(windows) = 1
  THEN pane_put(store, Head(windows), key(value),
                add_to_window(value, pane_get(store, Head(windows), key(value))))
  ELSE add_to_panes_orphan(
         pane_put(store, Head(windows), key(value),
                  add_to_window(value, pane_get(store, Head(windows), key(value)))),
         Tail(windows), value)

\* the add_to_window(msg.value, pane) calls of the first loop, one per window
add_to_window_calls(windows, value) ==
  [i \in 1..Len(windows) |-> <<"add_to_window", value.v>>]

\* the first loop of Window.receiveMsg_EmitMsg: add the value to its panes
RECURSIVE add_to_panes(_, _, _)
add_to_panes(store, windows, value) ==
  IF windows = <<>> THEN store
  ELSE add_to_panes(
         pane_put(store, Head(windows), key(value),
                  add_to_window(value, pane_get(store, Head(windows), key(value)))),
         Tail(windows), value)

\* (mutant) the trigger test against the start: a pane closes once it began
elapsed_since_start(ts, entry) == ts > entry.win[1]

\* (mutant) the trigger test with >= : a pane closes at its end
elapsed_at_end(ts, entry) == ts >= entry.win[2]

\* the trigger test of Window.receiveMsg_EmitMsg: timestamp > end
elapsed(ts, entry) == ts > entry.win[2]

\* the user's window_complete(window) emits the accumulator on "default"
RECURSIVE window_complete_sends(_, _)
window_complete_sends(due, subs) ==
  IF due = <<>> THEN <<>>
  ELSE emit(subs, Head(due).acc, "default") \o window_complete_sends(Tail(due), subs)

\* Window.receiveMsg_ReactToMsg: the binding is appended before
\* _send_subscribe, which needs the context Init sets
WindowReceiveMsg_ReactToMsg(self, sender, msg) ==
  /\ Len(subscriptions[self]) < MaxWinBind
  /\ subscriptions' = [subscriptions EXCEPT ![self] = Append(@, <<msg.ref, msg.stream>>)]
  /\ UNCHANGED <<baseVars, actorVars, pipeline, windowVars, classVars, loopVars>>
  /\ Observe(self, sender, msg,
             IF initPending[self] THEN <<>>
             ELSE <<Send(msg.ref, SubscribeMsg(msg.stream))>>,
             <<>>,
             IF initPending[self] THEN "AttributeError" ELSE NoError)

\* Window.receiveMsg_EmitMsg.  The trigger loop walks the panes in insertion
\* order; window_complete runs before the del, and its emit needs the context
\* Init sets, so before Init the first elapsed pane of a window with a
\* subscriber raises AttributeError and stays in the store.
WindowReceiveMsg_EmitMsg(self, sender, msg) ==
  LET ts == timestamp(msg.value)
      added == add_to_panes(panes, windows_for(assigner, ts), msg.value)
      due == SelectSeq(added, LAMBDA e : elapsed(ts, e))
      fails == /\ due # <<>>
               /\ initPending[self]
               /\ subscribers[self]["default"] # <<>>
  IN  /\ nmsgs < MaxWinMsgs
      /\ nmsgs' = nmsgs + 1
      /\ panes' = IF fails THEN added
                  ELSE SelectSeq(added, LAMBDA e : ~elapsed(ts, e))
      /\ UNCHANGED <<baseVars, actorVars, reactorVars, classVars, loopVars>>
      /\ ObserveFull(self, sender, msg,
                     IF fails THEN <<>> ELSE window_complete_sends(due, subscribers[self]),
                     add_to_window_calls(windows_for(assigner, ts), msg.value),
                     IF fails THEN "AttributeError" ELSE NoError,
                     <<>>,
                     IF fails THEN <<Head(due)>> ELSE due,
                     windows_for(assigner, ts))

\* Window.receiveUnrecognizedMessage: raise RuntimeError
WindowReceiveUnrecognizedMessage(self, sender, msg) ==
  /\ UNCHANGED compVars
  /\ Observe(self, sender, msg, <<>>, <<>>, "RuntimeError")

\* the receiveUnrecognizedMessage of the receiver's class
receiveUnrecognizedMessage(self, sender, msg) ==
  CASE Kind(self) = "actor" -> ActorReceiveUnrecognizedMessage(self, sender, msg)
    [] Kind(self) = "reactor" -> ReactorReceiveUnrecognizedMessage(self, sender, msg)
    [] Kind(self) = "window" -> WindowReceiveUnrecognizedMessage(self, sender, msg)

\* -------------------------------------------------------- the state after
\* construction: no wakeup is scheduled and tick was not called
InitLoop ==
  /\ timers = [c \in Comps |-> 0]
  /\ ticks = [c \in Comps |-> 0]

\* BaseActor.__init__ and Actor.__init__
InitComps(S) ==
  /\ spawned = S
  /\ initPending = [c \in Comps |-> TRUE]
  /\ subscribers = [c \in Comps |-> [s \in Streams |-> <<>>]]
  /\ monitoring = [c \in Comps |-> <<>>]
  /\ acc = [c \in Comps |-> <<>>]
  /\ subscriptions = [c \in Comps |-> <<>>]
  /\ pipeline = [c \in Comps |-> <<>>]
  /\ panes = <<>>
  /\ nmsgs = 0
  /\ InitLoop

InitObs ==
  /\ out = <<>>
  /\ called = <<>>
  /\ raised = NoError
  /\ pushed = <<>>
  /\ completed = <<>>
  /\ assigned = <<>>
  /\ last = [op |-> "spawn", self |-> None, sender |-> None, stream |-> None,
             value |-> 0, ref |-> None, source |-> None, method |-> None]

\* ------------------------------------------------------- component classes
\* @reacts_to("x") with the pipeline map(v -> 2v), one observable (scenario S2)
MapReactor ==
  [sources |-> {"x"}, dag |-> [dict |-> FALSE, items |-> << <<None, "x", 2>> >>]]
\* @reacts_to("x", "y") returning {"default": 2x, "a": 3y}
TwoSourceReactor ==
  [sources |-> {"x", "y"},
   dag |-> [dict |-> TRUE, items |-> << <<"default", "x", 2>>, <<"a", "y", 3>> >>]]
\* @reacts_to("x") returning {"default": 2x, "a": 3x} (scenario S3)
SplitReactor ==
  [sources |-> {"x"},
   dag |-> [dict |-> TRUE, items |-> << <<"default", "x", 2>>, <<"a", "x", 3>> >>]]
ReactorClasses == {MapReactor, TwoSourceReactor, SplitReactor}

FixedWindow(length, offset) ==
  [kind |-> "fixed", frequency |-> length, length |-> length, offset |-> offset]
SlidingWindow(frequency, length, offset) ==
  [kind |-> "sliding", frequency |-> frequency, length |-> length, offset |-> offset]
Assigners == {FixedWindow(2, 0), SlidingWindow(1, 2, 0), SlidingWindow(2, 1, 0)}

InitClasses(rc, wa) == reactorClass = rc /\ assigner = wa

InitNet ==
  /\ chan = [p \in Addr \X Comps |-> <<>>]
  /\ sysPc = 0

\* ContextWrapper.__init__ and ActorContext.__init__: the system context is
\* current, no handler runs
InitContext ==
  /\ ctx = Sys
  /\ prev = [c \in Comps |-> None]
  /\ running = [c \in Comps |-> "idle"]
  /\ handling = [c \in Comps |-> None]
  /\ before = [c \in Comps |-> None]
  /\ sentVia = [self |-> None, ctx |-> None]

\* SystemContext.__init__; a specification that starts with components
\* spawned starts with the ActorSystem that create started
InitEnv(started) ==
  /\ system = IF started THEN DefaultBase ELSE None
  /\ thespianSystemBase = DefaultBase
  /\ hist = <<>>
  /\ snap = None
  /\ InitContext

\* ---------------------------------------------- Spec: one component's pub/sub
\* The component P, an actor whose receive emits what EmitCmd carries.
Init ==
  InitComps({"P"}) /\ InitObs /\ InitNet /\ InitEnv(TRUE) /\ InitClasses(MapReactor, FixedWindow(2, 0))

Next ==
  \E sender \in Peers, stream \in Streams, value \in Values :
    \/ receiveMsg_InitMsg("P", sender, InitMsg(None, "default")) /\ UNCHANGED envVars
    \/ receiveMsg_SubscribeMsg("P", sender, SubscribeMsg(stream)) /\ UNCHANGED envVars
    \/ receiveMsg_UnsubscribeMsg("P", sender, UnsubscribeMsg(stream))
         /\ UNCHANGED envVars
    \/ ActorReceiveUnrecognizedMessage("P", sender, EmitCmd(value, stream))
         /\ UNCHANGED envVars

Spec == Init /\ [][Next]_vars

\* C2 as stated: after P ran emit(v, s), every ref of subscribers[s] was sent
\* exactly one Emit{v, s}, however often it occurs in the list.
C2_ExactlyOneEmitPerRef ==
  (last.op = "EmitCmd" /\ raised = NoError) =>
    \A r \in Addr :
      Occurs(subscribers["P"][last.stream], r) =>
        Count(out, Send(r, EmitMsg(last.value, last.stream))) = 1

\* C2 amended: emit(v, s) sends only Emit{v, s} messages, one per entry of
\* subscribers[s] and in the order of the list, so a ref is sent as many Emits
\* as it has entries in the list (one when it subscribed once).
C2_OneEmitPerEntry ==
  (last.op = "EmitCmd" /\ raised = NoError) =>
    LET l == subscribers["P"][last.stream]
    IN  /\ Len(out) = Len(l)
        /\ \A i \in 1..Len(out) :
             out[i] = Send(l[i], EmitMsg(last.value, last.stream))
        /\ \A r \in Addr :
             Count(out, Send(r, EmitMsg(last.value, last.stream))) = Count(l, r)

\* C2 witness: an emit on a stream that one ref subscribed to twice
C2_Witness ==
  /\ last.op = "EmitCmd"
  /\ raised = NoError
  /\ \E r \in Addr : Count(subscribers["P"][last.stream], r) = 2
  /\ Len(out) = 2

\* C10 as stated: Unsubscribe{stream} from sender removes the first occurrence
\* of sender from subscribers[stream] and, when sender is not in the list,
\* raises nothing and leaves the subscriber lists as they were.
C10_UnsubscribeAbsentIsNoOp ==
  [][last'.op = "Unsubscribe" =>
       /\ raised' = NoError
       /\ subscribers'["P"] =
            [subscribers["P"] EXCEPT ![last'.stream] = RemoveFirst(@, last'.sender)]
    ]_vars

\* ------------------------------- SpecRoundTrip: subscribe and unsubscribe
\* The component P with any subscriber lists that leave room for two more
\* entries; snap.ref sends Subscribe{snap.stream} twice and then
\* Unsubscribe{snap.stream} twice, and P handles the four messages in order.
SubscriberLists(n) == UNION {[1..k -> Peers] : k \in 0..n}

InitRoundTrip ==
  /\ spawned = {"P"}
  /\ initPending = [c \in Comps |-> TRUE]
  /\ \E l \in [Streams -> SubscriberLists(MaxSubs - 2)] :
       subscribers = [c \in Comps |-> IF c = "P" THEN l ELSE [s \in Streams |-> <<>>]]
  /\ monitoring = [c \in Comps |-> <<>>]
  /\ acc = [c \in Comps |-> <<>>]
  /\ subscriptions = [c \in Comps |-> <<>>]
  /\ pipeline = [c \in Comps |-> <<>>]
  /\ panes = <<>>
  /\ nmsgs = 0
  /\ InitLoop
  /\ InitObs /\ InitNet /\ InitClasses(MapReactor, FixedWindow(2, 0))
  /\ system = DefaultBase
  /\ thespianSystemBase = DefaultBase
  /\ hist = <<>>
  /\ InitContext
  /\ \E ref \in Peers, stream \in Streams :
       snap = [subs |-> subscribers["P"], ref |-> ref, stream |-> stream]

NextRoundTrip ==
  \/ /\ sysPc \in {0, 1}
     /\ receiveMsg_SubscribeMsg("P", snap.ref, SubscribeMsg(snap.stream))
     /\ sysPc' = sysPc + 1
     /\ UNCHANGED <<chan, sysCtxVars, scriptVars, ctxVars>>
  \/ /\ sysPc \in {2, 3}
     /\ receiveMsg_UnsubscribeMsg("P", snap.ref, UnsubscribeMsg(snap.stream))
     /\ sysPc' = sysPc + 1
     /\ UNCHANGED <<chan, sysCtxVars, scriptVars, ctxVars>>

SpecRoundTrip == InitRoundTrip /\ [][NextRoundTrip]_vars

\* C11: after Subscribe{s} twice and Unsubscribe{s} twice from A, no handler
\* having raised, subscribers[s] holds every ref as often as before and the
\* lists of the other streams are the lists of before.
C11_RoundTripRestoresMultiset ==
  (sysPc = 4) =>
    /\ raised = NoError
    /\ \A r \in Addr :
         Count(subscribers["P"][snap.stream], r) = Count(snap.subs[snap.stream], r)
    /\ Len(subscribers["P"][snap.stream]) = Len(snap.subs[snap.stream])
    /\ \A s \in Streams \ {snap.stream} : subscribers["P"][s] = snap.subs[s]

\* C11 witness: the round trip is done and the list came back in another
\* order (A stood before another ref, its entry is now behind it)
C11_Witness ==
  /\ sysPc = 4
  /\ subscribers["P"][snap.stream] # snap.subs[snap.stream]

\* ------------------------------------------------ SpecActor: one actor
\* The actor C, whose receive runs the monitor and unmonitor commands, and the
\* Emit messages of its upstreams.
InitActor ==
  InitComps({"C"}) /\ InitObs /\ InitNet /\ InitEnv(TRUE) /\ InitClasses(MapReactor, FixedWindow(2, 0))

NextActor ==
  \E sender \in Upstreams, stream \in Streams, value \in Values, method \in Methods :
    \/ receiveMsg_InitMsg("C", sender, InitMsg(None, "default")) /\ UNCHANGED envVars
    \/ ActorReceiveUnrecognizedMessage("C", Sys, MonitorCmd(sender, method, stream))
         /\ UNCHANGED envVars
    \/ ActorReceiveUnrecognizedMessage("C", Sys, UnmonitorCmd(sender, stream))
         /\ UNCHANGED envVars
    \/ ActorReceiveMsg_EmitMsg("C", sender, EmitMsg(value, stream))
         /\ UNCHANGED envVars

SpecActor == InitActor /\ [][NextActor]_vars

\* the triples of a monitoring list that match both the upstream and the stream
Matching(mon, ref, stream) ==
  {i \in 1..Len(mon) : mon[i][1] = ref /\ mon[i][2] = stream}

\* C3 as stated: an Emit{value, stream} from sender invokes the callback of the
\* first triple whose upstream is sender and whose stream is the message's
\* stream, and no callback when no triple matches both.
C3_CallbackOfFirstMatchingTriple ==
  (last.op = "Emit" /\ raised = NoError) =>
    LET mon == monitoring["C"]
        idx == Matching(mon, last.sender, last.stream)
    IN  called = IF idx = {} THEN <<>> ELSE <<<<mon[Min(idx)][3], last.value>>>>

\* C4 as stated: when the list holds a triple (r, s, *), unmonitor(r, s) removes
\* the first such triple and nothing else, and sends Unsubscribe{s} to r.
C4_UnmonitorRemovesFirstMatch ==
  [][(/\ last'.op = "UnmonitorCmd"
      /\ ~initPending["C"]
      /\ Matching(monitoring["C"], last'.ref, last'.stream) # {}) =>
       LET mon == monitoring["C"]
           k == Min(Matching(mon, last'.ref, last'.stream))
       IN  /\ raised' = NoError
           /\ monitoring'["C"] = RemoveFirst(mon, mon[k])
           /\ out' = <<Send(last'.ref, UnsubscribeMsg(last'.stream))>>
    ]_vars

\* --------------------------------------------- SpecReactor: one reactor
\* The reactor R of either class, with K possibly subscribed to its streams,
\* handling Init, ReactTo and the Emit messages of its upstreams.
SubscribedK ==
  {[s \in Streams |-> <<>>],
   [s \in Streams |-> IF s = "default" THEN <<"K">> ELSE <<>>],
   [s \in Streams |-> <<"K">>]}

InitReactor ==
  /\ \E sk \in SubscribedK :
       /\ spawned = {"R"}
       /\ initPending = [c \in Comps |-> TRUE]
       /\ subscribers = [c \in Comps |-> IF c = "R" THEN sk ELSE [s \in Streams |-> <<>>]]
  /\ monitoring = [c \in Comps |-> <<>>]
  /\ acc = [c \in Comps |-> <<>>]
  /\ subscriptions = [c \in Comps |-> <<>>]
  /\ pipeline = [c \in Comps |-> <<>>]
  /\ panes = <<>>
  /\ nmsgs = 0
  /\ InitLoop
  /\ InitObs /\ InitNet /\ InitEnv(TRUE)
  /\ \E rc \in ReactorClasses : InitClasses(rc, FixedWindow(2, 0))

NextReactor ==
  \E ref \in Upstreams, stream \in Streams, value \in Values, source \in {"x", "y"} :
    \/ receiveMsg_InitMsg("R", Sys, InitMsg(None, "default")) /\ UNCHANGED envVars
    \/ ReactorReceiveMsg_ReactToMsg("R", Sys, ReactToMsg(ref, source, stream))
         /\ UNCHANGED envVars
    \/ ReactorReceiveMsg_EmitMsg("R", ref, EmitMsg(value, stream))
         /\ UNCHANGED envVars

SpecReactor == InitReactor /\ [][NextReactor]_vars

\* C7: a reactor that processed Emit{value, stream} from sender pushed value
\* once per binding (sender, stream, source), in binding order, and nothing
\* into a source without such a binding.
C7_OnePushPerMatchingBinding ==
  (last.op = "Emit" /\ last.self = "R") =>
    LET binds == subscriptions["R"]
        m == SelectSeq(binds, LAMBDA b : b[1] = last.sender /\ b[2] = last.stream)
    IN  /\ Len(pushed) = Len(m)
        /\ \A i \in 1..Len(m) : pushed[i] = <<m[i][3], last.value>>
        /\ \A src \in {"x", "y"} :
             Cardinality({i \in 1..Len(pushed) : pushed[i][1] = src})
               = Count(binds, <<last.sender, last.stream, src>>)

\* C7 witness: of two bindings of one upstream on different streams, one Emit
\* was pushed into exactly the binding of its stream
C7_Witness ==
  /\ last.op = "Emit" /\ last.self = "R"
  /\ Len(pushed) = 1
  /\ Len(subscriptions["R"]) = 2
  /\ subscriptions["R"][1][1] = subscriptions["R"][2][1]
  /\ subscriptions["R"][1][2] # subscriptions["R"][2][2]

\* the stream the values of item i of a dag are to be emitted on
TerminalStream(dag, i) == IF dag.dict THEN dag.items[i][1] ELSE "default"

\* C28 as stated: a ReactTo naming a source the reactor's class does not
\* declare raises, records no binding and sends nothing; one naming a
\* declared source appends the one binding (ref, stream, source) to the
\* bindings, which stay as they were, and sends one Subscribe{stream} to ref.
C28_ReactToDeclaredSourceOnly ==
  [][(last'.op = "ReactTo" /\ last'.self = "R") =>
       IF last'.source \notin reactorClass.sources
       THEN /\ raised' # NoError
            /\ subscriptions' = subscriptions
            /\ out' = <<>>
       ELSE /\ subscriptions'["R"] =
                 Append(subscriptions["R"], <<last'.ref, last'.stream, last'.source>>)
            /\ out' = <<Send(last'.ref, SubscribeMsg(last'.stream))>>
    ]_vars

\* C16: an initialised reactor that handled an Emit sent only Emit messages,
\* and to every subscriber entry of stream s one Emit{factor * value, s} per
\* value pushed into the source of an observable that build_dag mapped to s
\* ("default" for a single observable), and no Emit on s for any other
\* observable.
C16_EachObservableOnItsStream ==
  (last.op = "Emit" /\ last.self = "R" /\ ~initPending["R"]) =>
    LET items == reactorClass.dag.items
    IN  /\ \A k \in 1..Len(out) :
             /\ out[k].msg.type = "Emit"
             /\ out[k].msg = EmitMsg(out[k].msg.value, out[k].msg.stream)
        /\ \A r \in Addr, s \in Streams, w \in 1..6 :
             Count(out, Send(r, EmitMsg(w, s)))
               = Count(subscribers["R"][s], r)
                   * Cardinality({p \in (1..Len(items)) \X (1..Len(pushed)) :
                        /\ TerminalStream(reactorClass.dag, p[1]) = s
                        /\ items[p[1]][2] = pushed[p[2]][1]
                        /\ items[p[1]][3] * pushed[p[2]][2] = w})

\* C16 witness: one value pushed into the source of {"default": 2x, "a": 3x}
\* came out once on each stream
C16_Witness ==
  /\ last.op = "Emit" /\ last.self = "R"
  /\ reactorClass = SplitReactor
  /\ Len(pushed) = 1
  /\ out = <<Send("K", EmitMsg(2 * last.value, "default")),
             Send("K", EmitMsg(3 * last.value, "a"))>>

\* ----------------------------------------------- SpecWindow: one window
\* The window W with any of the assigners, K possibly subscribed to its default
\* stream, handling Init, ReactTo and the Emit messages of P on "default",
\* with timestamps in any order.
Timestamps == {0, 1, 3}
Keys == {None, "k"}

InitWindow ==
  /\ \E sk \in SubscribedK \ {[s \in Streams |-> <<"K">>]} :
       /\ spawned = {"W"}
       /\ initPending = [c \in Comps |-> TRUE]
       /\ subscribers = [c \in Comps |-> IF c = "W" THEN sk ELSE [s \in Streams |-> <<>>]]
  /\ monitoring = [c \in Comps |-> <<>>]
  /\ acc = [c \in Comps |-> <<>>]
  /\ subscriptions = [c \in Comps |-> <<>>]
  /\ pipeline = [c \in Comps |-> <<>>]
  /\ panes = <<>>
  /\ nmsgs = 0
  /\ InitLoop
  /\ InitObs /\ InitNet /\ InitEnv(TRUE)
  /\ \E wa \in Assigners : InitClasses(MapReactor, wa)

NextWindow ==
  \E ref \in Upstreams, ts \in Timestamps, k \in Keys :
    \/ receiveMsg_InitMsg("W", Sys, InitMsg(None, "default")) /\ UNCHANGED envVars
    \/ WindowReceiveMsg_ReactToMsg("W", Sys, ReactToMsg(ref, None, "default"))
         /\ UNCHANGED envVars
    \/ WindowReceiveMsg_EmitMsg("W", "P", EmitMsg(Record(ts, k, 1), "default"))
         /\ UNCHANGED envVars

SpecWindow == InitWindow /\ [][NextWindow]_vars

\* C5: a pane leaves the pane store only in a step that handles an Emit whose
\* timestamp is strictly greater than the pane's end, and in that step
\* window_complete is called exactly once for the pane, with the accumulator
\* the store held for it (the result of its last add_to_window).
C5_RemovedPaneCompletedOnce ==
  [][\A i \in 1..Len(panes) :
       (~\E j \in 1..Len(panes') :
           panes'[j].win = panes[i].win /\ panes'[j].key = panes[i].key) =>
         /\ last'.op = "Emit"
         /\ last'.self = "W"
         /\ timestamp(last'.value) > panes[i].win[2]
         /\ Cardinality({j \in 1..Len(completed') :
                           /\ completed'[j].win = panes[i].win
                           /\ completed'[j].key = panes[i].key}) = 1
         /\ \E j \in 1..Len(completed') : completed'[j] = panes[i]
    ]_vars

\* C5 witness: one Emit completed two panes, a later pane staying open (the
\* timestamps came out of order or the panes overlap)
C5_Witness ==
  /\ last.op = "Emit" /\ last.self = "W"
  /\ raised = NoError
  /\ Len(completed) >= 2
  /\ panes # <<>>

\* C6 as stated: an Emit from a (sender, stream) pair that no ReactTo bound
\* changes no accumulator, creates no pane and completes no pane.
C6_UnboundEmitIsIgnored ==
  [][(/\ last'.op = "Emit"
      /\ last'.self = "W"
      /\ ~Occurs(subscriptions["W"], <<last'.sender, last'.stream>>)) =>
       (panes' = panes /\ completed' = <<>>)
    ]_vars

\* C23: when the sliding assigner returns no pane for the value of an Emit,
\* add_to_window is not called, every pane of the store afterwards is a pane
\* of the store before with the accumulator it had, and a pane that left the
\* store ended below the timestamp and was passed to window_complete.
C23_EmptyAssignmentAddsNothing ==
  [][(last'.op = "Emit" /\ last'.self = "W" /\ assigned' = <<>>) =>
       /\ called' = <<>>
       /\ \A j \in 1..Len(panes') : \E i \in 1..Len(panes) : panes[i] = panes'[j]
       /\ \A i \in 1..Len(panes) :
            (\A j \in 1..Len(panes') : panes'[j] # panes[i]) =>
              /\ panes[i].win[2] < timestamp(last'.value)
              /\ \E j \in 1..Len(completed') : completed'[j] = panes[i]
    ]_vars

\* C23 witness: a sliding assigner with length < frequency returned no pane
\* for the value handled, whose timestamp completed a pane and left one open
C23_Witness ==
  /\ last.op = "Emit" /\ last.self = "W"
  /\ assigner.kind = "sliding" /\ assigner.length < assigner.frequency
  /\ assigned = <<>>
  /\ completed # <<>>
  /\ panes # <<>>

\* the panes of a store, as (window, key) pairs
PaneIds(store) == {<<store[i].win, store[i].key>> : i \in 1..Len(store)}

\* C24: after the handler of an Emit with timestamp ts returned, the store
\* holds exactly the panes, of any key, that it held before or that the
\* assigner gave the value, and that end at ts or later; the panes that ended
\* below ts were passed to window_complete and are gone, and no pane the
\* value was added to is among them.
C24_StoreAfterEmit ==
  [][(last'.op = "Emit" /\ last'.self = "W" /\ raised' = NoError) =>
       LET ts == timestamp(last'.value)
           mine == {<<assigned'[i], key(last'.value)>> : i \in 1..Len(assigned')}
           done == PaneIds(completed')
       IN  /\ PaneIds(panes') = {p \in PaneIds(panes) \cup mine : p[1][2] >= ts}
           /\ done = {p \in PaneIds(panes) \cup mine : p[1][2] < ts}
           /\ mine \subseteq PaneIds(panes')
           /\ mine \cap done = {}
    ]_vars

\* C24 witness: the Emit handled completed a pane of another key than its
\* own, and the pane its value was added to is open
C24_Witness ==
  /\ last.op = "Emit" /\ last.self = "W" /\ raised = NoError
  /\ \E i \in 1..Len(completed) : completed[i].key # key(last.value)
  /\ assigned # <<>>
  /\ \A i \in 1..Len(assigned) : <<assigned[i], key(last.value)>> \in PaneIds(panes)

\* ------------------------------------- SpecUser: user-defined messages
\* An actor P, a reactor R and a window W, K possibly subscribed to P; each
\* handles its Init and user messages in any order; R and W also handle
\* ReactTo, and W the Emit messages of P, so that they have bindings and panes.
UserKinds == {"Tick", "EmitCmd", "MonitorCmd", "UnmonitorCmd"}

InitUser ==
  /\ \E sk \in SubscribedK :
       /\ spawned = {"P", "R", "W"}
       /\ initPending = [c \in Comps |-> TRUE]
       /\ subscribers = [c \in Comps |-> IF c = "P" THEN sk ELSE [s \in Streams |-> <<>>]]
  /\ monitoring = [c \in Comps |-> <<>>]
  /\ acc = [c \in Comps |-> <<>>]
  /\ subscriptions = [c \in Comps |-> <<>>]
  /\ pipeline = [c \in Comps |-> <<>>]
  /\ panes = <<>>
  /\ nmsgs = 0
  /\ InitLoop
  /\ InitObs /\ InitNet /\ InitEnv(TRUE)
  /\ InitClasses(MapReactor, FixedWindow(2, 0))

NextUser ==
  \/ \E c \in {"P", "R", "W"} :
       receiveMsg_InitMsg(c, Sys, InitMsg(None, "default")) /\ UNCHANGED envVars
  \/ \E c \in {"P", "R", "W"}, value \in Values, stream \in Streams :
       receiveUnrecognizedMessage(c, Sys, EmitCmd(value, stream)) /\ UNCHANGED envVars
  \/ ReactorReceiveMsg_ReactToMsg("R", Sys, ReactToMsg("P", "x", "default"))
       /\ UNCHANGED envVars
  \/ WindowReceiveMsg_ReactToMsg("W", Sys, ReactToMsg("P", None, "default"))
       /\ UNCHANGED envVars
  \/ \E ts \in {0, 3} :
       WindowReceiveMsg_EmitMsg("W", "P", EmitMsg(Record(ts, None, 1), "default"))
         /\ UNCHANGED envVars

SpecUser == InitUser /\ [][NextUser]_vars

ScenarioAssigners == {FixedWindow(10, 0), SlidingWindow(5, 10, 0)}
ScenarioInputs ==
  {Record(1, None, 5), Record(3, None, 7), Record(12, None, 1),
   Record(7, None, 1), Record(16, None, 1)}

InitPanes ==
  /\ \E sk \in SubscribedK \ {[s \in Streams |-> <<"K">>]} :
       /\ spawned = {"W"}
       /\ initPending = [c \in Comps |-> TRUE]
       /\ subscribers = [c \in Comps |-> IF c = "W" THEN sk ELSE [s \in Streams |-> <<>>]]
  /\ monitoring = [c \in Comps |-> <<>>]
  /\ acc = [c \in Comps |-> <<>>]
  /\ subscriptions = [c \in Comps |-> <<>>]
  /\ pipeline = [c \in Comps |-> <<>>]
  /\ panes = <<>>
  /\ nmsgs = 0
  /\ InitLoop
  /\ InitObs /\ InitNet /\ InitEnv(TRUE)
  /\ \E wa \in ScenarioAssigners : InitClasses(MapReactor, wa)

NextPanes ==
  \/ /\ initPending["W"]
     /\ receiveMsg_InitMsg("W", Sys, InitMsg(None, "default"))
     /\ UNCHANGED envVars
  \/ \E value \in ScenarioInputs :
       /\ ~initPending["W"]
       /\ WindowReceiveMsg_EmitMsg("W", "P", EmitMsg(value, "default"))
       /\ hist' = Append(hist, value)
       /\ UNCHANGED <<netVars, sysCtxVars, snap, ctxVars>>

SpecPanes == InitPanes /\ [][NextPanes]_vars

Pane(start, end, k, a) == [win |-> <<start, end>>, key |-> k, acc |-> a]

\* C14 (scenario S4): a FixedWindow(10, 0) window that handled 5 at ts=1, then
\* 7 at ts=3, completed no pane; when it then handles 1 at ts=12, it completes
\* exactly pane [0,10) with accumulator 12 and emits 12 to its subscribers,
\* and its store holds exactly pane [10,20) with accumulator 1.
C14_FixedWindowScenario ==
  assigner = FixedWindow(10, 0) =>
    /\ hist \in {<<Record(1, None, 5)>>, <<Record(1, None, 5), Record(3, None, 7)>>}
         => completed = <<>> /\ out = <<>>
    /\ hist = <<Record(1, None, 5), Record(3, None, 7)>>
         => panes = <<Pane(0, 10, None, 12)>>
    /\ hist = <<Record(1, None, 5), Record(3, None, 7), Record(12, None, 1)>>
         => /\ completed = <<Pane(0, 10, None, 12)>>
            /\ panes = <<Pane(10, 20, None, 1)>>
            /\ out = emit(subscribers["W"], 12, "default")

\* C14 witness: the third input of S4 was handled by a window with a subscriber
C14_Witness ==
  /\ assigner = FixedWindow(10, 0)
  /\ hist = <<Record(1, None, 5), Record(3, None, 7), Record(12, None, 1)>>
  /\ out = <<Send("K", EmitMsg(12, "default"))>>

\* C15 (scenario S5): in a SlidingWindow(5, 10, 0) window the input at ts=7 is
\* assigned to exactly the panes [0,10) and [5,15); the following input at
\* ts=16 completes both of them and removes both from the store.
C15_SlidingWindowScenario ==
  assigner = SlidingWindow(5, 10, 0) =>
    /\ hist = <<Record(7, None, 1)>> =>
         /\ Len(assigned) = 2
         /\ {assigned[i] : i \in 1..2} = {<<0, 10>>, <<5, 15>>}
         /\ {panes[i] : i \in 1..Len(panes)} = {Pane(0, 10, None, 1), Pane(5, 15, None, 1)}
         /\ completed = <<>>
    /\ hist = <<Record(7, None, 1), Record(16, None, 1)>> =>
         /\ Len(completed) = 2
         /\ {completed[i] : i \in 1..2} = {Pane(0, 10, None, 1), Pane(5, 15, None, 1)}
         /\ \A i \in 1..Len(panes) : panes[i].win \notin {<<0, 10>>, <<5, 15>>}

\* C15 witness: the input at ts=16 of S5 was handled; its own panes stay open
C15_Witness ==
  /\ assigner = SlidingWindow(5, 10, 0)
  /\ hist = <<Record(7, None, 1), Record(16, None, 1)>>
  /\ Len(completed) = 2
  /\ {panes[i].win : i \in 1..Len(panes)} = {<<15, 25>>, <<10, 20>>}

\* ------------------------------------- SpecAssign: the window assigners
\* windows_for of a FixedWindow or SlidingWindow with any length, frequency
\* and offset, called with any timestamp.
Offsets == -1..1
TsRange == (0 - MaxTs)..MaxTs
AllAssigners ==
  {FixedWindow(l, o) : l \in 1..MaxLen, o \in Offsets}
    \cup {SlidingWindow(f, l, o) : f \in 1..MaxLen, l \in 1..MaxLen, o \in Offsets}

InitAssign ==
  /\ InitComps({"W"}) /\ InitObs /\ InitNet /\ InitEnv(TRUE)
  /\ \E wa \in AllAssigners : InitClasses(MapReactor, wa)

\* self._harpy_window_assigner.windows_for(timestamp, msg.value)
windows_for_call(ts) ==
  /\ assigned' = windows_for(assigner, ts)
  /\ last' = [op |-> "windows_for", self |-> "W", sender |-> None, stream |-> None,
              value |-> ts, ref |-> None, source |-> None, method |-> None]
  /\ UNCHANGED <<compVars, envVars, out, called, raised, pushed, completed>>

NextAssign == \E ts \in TsRange : windows_for_call(ts)

SpecAssign == InitAssign /\ [][NextAssign]_vars

\* two panes are the same pane or share no timestamp
SameOrDisjoint(p, q) == p = q \/ p[2] <= q[1] \/ q[2] <= p[1]

\* C12: FixedWindow(L, 0).windows_for(t) is one pane (start, start + L) with
\* start a multiple of L and start <= t < start + L, for negative t too; the
\* panes of two timestamps are the same pane or disjoint.
C12_FixedWindowPartitions ==
  (last.op = "windows_for" /\ assigner.kind = "fixed" /\ assigner.offset = 0) =>
    /\ Len(assigned) = 1
    /\ assigned[1][2] = assigned[1][1] + assigner.length
    /\ assigned[1][1] % assigner.length = 0
    /\ assigned[1][1] <= last.value /\ last.value < assigned[1][2]
    /\ \A u \in TsRange : SameOrDisjoint(assigned[1], windows_for(assigner, u)[1])

\* C12 witness: a negative timestamp strictly inside its pane
C12_Witness ==
  /\ last.op = "windows_for" /\ assigner.kind = "fixed" /\ assigner.offset = 0
  /\ last.value < 0
  /\ assigned[1][1] < last.value

\* the panes (w, w + L) with w congruent to O modulo F and w <= t < w + L
PanesOf(a, ts) ==
  {<<w, w + a.length>> : w \in {v \in (ts - a.length)..ts :
                                   (v - a.offset) % a.frequency = 0 /\ ts < v + a.length}}

\* the part of C13 the code meets: windows_for returns exactly PanesOf, by
\* decreasing start and without repetition
ExactPanes ==
  /\ {assigned[i] : i \in 1..Len(assigned)} = PanesOf(assigner, last.value)
  /\ \A i \in 1..(Len(assigned) - 1) : assigned[i][1] > assigned[i + 1][1]

\* C13 as stated: SlidingWindow(F, L, O).windows_for(t) returns exactly the
\* panes (w, w + L) with w congruent to O modulo F and w <= t < w + L, by
\* decreasing w; exactly one pane when L = F (the pane of FixedWindow(L, O)),
\* and more than one when L > F.
C13_SlidingMoreThanOneWhenLonger ==
  (last.op = "windows_for" /\ assigner.kind = "sliding") =>
    /\ ExactPanes
    /\ assigner.length = assigner.frequency =>
         assigned = fixed_windows_for(FixedWindow(assigner.length, assigner.offset),
                                      last.value)
    /\ assigner.length > assigner.frequency => Len(assigned) > 1

\* C13 amended: the same set of panes; exactly one pane when L = F (the pane of
\* FixedWindow(L, O)); when L > F at least one pane, and more than one when
\* L >= 2F; when L < F at most one pane.
C13_SlidingExactPanes ==
  (last.op = "windows_for" /\ assigner.kind = "sliding") =>
    /\ ExactPanes
    /\ assigner.length = assigner.frequency =>
         assigned = fixed_windows_for(FixedWindow(assigner.length, assigner.offset),
                                      last.value)
    /\ assigner.length > assigner.frequency => Len(assigned) >= 1
    /\ assigner.length >= 2 * assigner.frequency => Len(assigned) > 1
    /\ assigner.length < assigner.frequency => Len(assigned) <= 1

\* C13 witness: a length greater than the frequency and a timestamp with one
\* pane only
C13_Witness ==
  /\ last.op = "windows_for" /\ assigner.kind = "sliding"
  /\ assigner.length > assigner.frequency
  /\ Len(assigned) = 1

\* ------------------------------------------------------------- the network
\* Mailboxes are FIFO per (sender, receiver) pair: a component takes the head
\* of any of its non-empty channels, so messages of different senders arrive
\* in any order.
Ready(s, r, types) ==
  /\ r \in spawned
  /\ chan[<<s, r>>] # <<>>
  /\ Head(chan[<<s, r>>]).type \in types

\* the messages of a handler's sends that go to dst, in the order sent
MsgsTo(sends, dst) ==
  LET sel == SelectSeq(sends, LAMBDA x : x.dst = dst)
  IN  [i \in 1..Len(sel) |-> sel[i].msg]

\* ActorContext.send: the head of <<s, r>> is consumed and what the handler of
\* r sent is appended to the channels from r
RouteChan(s, r) ==
  chan' = [p \in Addr \X Comps |->
             (IF p = <<s, r>> THEN Tail(chan[p]) ELSE chan[p])
             \o (IF p[1] = r /\ p[2] \in Comps THEN MsgsTo(out', p[2]) ELSE <<>>)]

Route(s, r) ==
  /\ RouteChan(s, r)
  /\ UNCHANGED <<sysPc, sysCtxVars, scriptVars, ctxVars>>

\* the same, the run keeping a record of what the handler did
RouteLogged(s, r, entries) ==
  /\ RouteChan(s, r)
  /\ hist' = hist \o entries
  /\ UNCHANGED <<sysPc, sysCtxVars, snap, ctxVars>>

DeliverInit(s, r) ==
  Ready(s, r, {"Init"}) /\ receiveMsg_InitMsg(r, s, Head(chan[<<s, r>>])) /\ Route(s, r)

DeliverSubscribe(s, r) ==
  /\ Ready(s, r, {"Subscribe"})
  /\ receiveMsg_SubscribeMsg(r, s, Head(chan[<<s, r>>]))
  /\ Route(s, r)

DeliverUser(s, r) ==
  /\ Ready(s, r, {"Tick"}) /\ Kind(r) = "actor"
  /\ ActorReceiveUnrecognizedMessage(r, s, Head(chan[<<s, r>>]))
  /\ Route(s, r)

DeliverActorEmit(s, r) ==
  /\ Ready(s, r, {"Emit"}) /\ Kind(r) = "actor"
  /\ ActorReceiveMsg_EmitMsg(r, s, Head(chan[<<s, r>>]))
  /\ Route(s, r)

DeliverReactorEmit(s, r) ==
  /\ Ready(s, r, {"Emit"}) /\ Kind(r) = "reactor"
  /\ ReactorReceiveMsg_EmitMsg(r, s, Head(chan[<<s, r>>]))
  /\ Route(s, r)

DeliverReactorReactTo(s, r) ==
  /\ Ready(s, r, {"ReactTo"}) /\ Kind(r) = "reactor"
  /\ ReactorReceiveMsg_ReactToMsg(r, s, Head(chan[<<s, r>>]))
  /\ Route(s, r)

\* one statement of the external code; it runs under the system context, and
\* SystemContext.create starts the ActorSystem on the first spawn
SysStep(pc, sends, created) ==
  /\ sysPc = pc
  /\ sysPc' = pc + 1
  /\ spawned' = spawned \cup created
  /\ chan' = [p \in Addr \X Comps |->
                chan[p] \o (IF p[1] = Sys THEN MsgsTo(sends, p[2]) ELSE <<>>)]
  /\ system' = IF created # {} /\ system = None THEN thespianSystemBase ELSE system
  /\ UNCHANGED <<initPending, subscribers, actorVars, reactorVars, windowVars, classVars,
                 loopVars, thespianSystemBase, scriptVars, ctxVars>>
  /\ out' = <<>> /\ called' = <<>> /\ raised' = NoError
  /\ pushed' = <<>> /\ completed' = <<>> /\ assigned' = <<>>
  /\ last' = [op |-> "sys", self |-> Sys, sender |-> Sys, stream |-> None,
              value |-> pc, ref |-> None, source |-> None, method |-> None]

\* BaseActor.spawn(*args): create the component, then send it Init
spawn(pc, c, ref, stream) == SysStep(pc, <<Send(c, InitMsg(ref, stream))>>, {c})
\* ActorRef.send(msg)
ref_send(pc, c, msg) == SysStep(pc, <<Send(c, msg)>>, {})
\* ReactorRef.react_to(ref, source, stream)
react_to(pc, c, ref, source, stream) ==
  SysStep(pc, <<Send(c, ReactToMsg(ref, source, stream))>>, {})

InitScenario ==
  /\ InitComps({}) /\ InitObs /\ InitNet /\ InitEnv(FALSE) /\ InitClasses(MapReactor, FixedWindow(2, 0))

\* ------------------------------------------- SpecS1: monitor and emit (S1)
\* P = producer.spawn(); C = collector.spawn(P); K = collector.spawn(P), the
\* collectors made by @monitor; once C ran monitor(P, receive_fn, "default"):
\* P.send(Tick).  K is a second collector of the same stream.
SysS1 ==
  \/ spawn(0, "P", None, "default")
  \/ spawn(1, "C", "P", "default")
  \/ spawn(2, "K", "P", "default")
  \/ ~initPending["C"] /\ ref_send(3, "P", TickMsg)

DeliverS1(s, r) ==
  \/ DeliverInit(s, r)
  \/ DeliverSubscribe(s, r)
  \/ DeliverUser(s, r)
  \/ DeliverActorEmit(s, r)

NextS1 == SysS1 \/ \E s \in Addr, r \in Comps : DeliverS1(s, r)

\* every statement of the external code runs, and every message in a mailbox
\* is processed in the end
SpecS1 ==
  /\ InitScenario /\ [][NextS1]_vars
  /\ WF_vars(SysS1)
  /\ \A s \in Addr, r \in Comps : WF_vars(DeliverS1(s, r))

\* ----------------------------------------------- SpecS2: map reactor (S2)
\* R = reactor.spawn(); K = collector.spawn(R); P = producer.spawn();
\* R.react_to(P, "x", "default"); once K ran monitor(R): P.send(Tick).
SysS2 ==
  \/ spawn(0, "R", None, "default")
  \/ spawn(1, "K", "R", "default")
  \/ spawn(2, "P", None, "default")
  \/ react_to(3, "R", "P", "x", "default")
  \/ ~initPending["K"] /\ ref_send(4, "P", TickMsg)

DeliverS2(s, r) ==
  \/ DeliverInit(s, r)
  \/ DeliverSubscribe(s, r)
  \/ DeliverUser(s, r)
  \/ DeliverActorEmit(s, r)
  \/ DeliverReactorEmit(s, r)
  \/ DeliverReactorReactTo(s, r)

NextS2 == SysS2 \/ \E s \in Addr, r \in Comps : DeliverS2(s, r)

SpecS2 ==
  /\ InitScenario /\ [][NextS2]_vars
  /\ WF_vars(SysS2)
  /\ \A s \in Addr, r \in Comps : WF_vars(DeliverS2(s, r))

\* ------------------------------------------ SpecSystem: the system context
\* The external code spawns up to three actors and, at any moment, calls
\* overrideSystemBase with any backend.  It reaches the SystemContext either
\* as currentContext.ctx or as SystemContext(): __new__ returns the one
\* instance, and Python then runs __init__ on it again, which assigns
\* system = None and thespianSystemBase = 'multiprocTCPBase'.
Vias == {"currentContext.ctx", "SystemContext()"}

\* SystemContext.overrideSystemBase(base) on the receiver that via yields
overrideSystemBase(via, base) ==
  LET reinit == via = "SystemContext()"
      sys0 == IF reinit THEN None ELSE system
      base0 == IF reinit THEN DefaultBase ELSE thespianSystemBase
      ok == sys0 = None
  IN  /\ system' = sys0
      /\ thespianSystemBase' = IF ok THEN base ELSE base0
      /\ UNCHANGED <<compVars, netVars, scriptVars, ctxVars>>
      /\ out' = <<>> /\ called' = <<>> /\ pushed' = <<>>
      /\ completed' = <<>> /\ assigned' = <<>>
      /\ raised' = IF ok THEN NoError ELSE "AssertionError"
      /\ last' = [op |-> "overrideSystemBase", self |-> Sys, sender |-> Sys,
                  stream |-> None, value |-> 0, ref |-> base, source |-> None,
                  method |-> via]

SysSpawn ==
  \E c \in {"P", "C", "K"} \ spawned : spawn(sysPc, c, None, "default")

NextSystem ==
  \/ SysSpawn
  \/ \E via \in Vias, base \in Bases : overrideSystemBase(via, base)
  \/ \E r \in Comps : DeliverInit(Sys, r)

SpecSystem == InitScenario /\ [][NextSystem]_vars

\* C20 as stated: overrideSystemBase succeeds and sets the backend when no
\* component has been spawned yet, the first spawn starts the system on the
\* backend set, and a call after the first spawn raises and leaves the
\* backend set and the running system as they were.
C20_OverrideOnlyBeforeFirstSpawn ==
  [][/\ (last'.op = "overrideSystemBase" /\ spawned = {}) =>
          (raised' = NoError /\ thespianSystemBase' = last'.ref /\ system' = None)
     /\ (last'.op = "sys" /\ spawned = {}) => system' = thespianSystemBase
     /\ (last'.op = "overrideSystemBase" /\ spawned # {}) =>
          (raised' = "AssertionError" /\ UNCHANGED <<system, thespianSystemBase>>)
    ]_vars

\* --------------------------------------------- SpecLoop: a looping actor
\* T = ticker.spawn(), ticker being a class under @loop(time); the external
\* code may then send T up to MaxExt messages, or none: user messages, or an
\* Init that it has no business sending.  The host delivers a scheduled
\* wakeup when its time has passed.
SysLoop ==
  \/ spawn(0, "T", None, "default")
  \/ sysPc \in 1..MaxExt /\ ref_send(sysPc, "T", TickMsg)
  \/ sysPc \in 1..MaxExt /\ ref_send(sysPc, "T", InitMsg(None, "default"))

DeliverWakeup(r) ==
  /\ r \in spawned /\ Kind(r) = "actor"
  /\ ActorReceiveMsg_WakeupMessage(r, r, WakeupMessage)
  /\ UNCHANGED envVars

DeliverLoop(s, r) ==
  \/ DeliverInit(s, r)
  \/ DeliverUser(s, r)

NextLoop ==
  \/ SysLoop
  \/ \E s \in Addr, r \in Comps : DeliverLoop(s, r)
  \/ \E r \in Comps : DeliverWakeup(r)

\* the spawn statement runs, Init is delivered and timers are delivered; the
\* external code is free never to send a message
SpecLoop ==
  /\ InitScenario /\ [][NextLoop]_vars
  /\ WF_vars(spawn(0, "T", None, "default"))
  /\ WF_vars(DeliverInit(Sys, "T"))
  /\ WF_vars(DeliverWakeup("T"))

\* C17: the Init of a looping actor schedules one wakeup; the handler of a
\* wakeup schedules the next one and calls tick; so tick is called again and
\* again (the count of its calls takes every value modulo TickWrap infinitely
\* often), with or without messages from outside.
C17_TicksForever ==
  /\ [][(last'.op = "Init" /\ last'.self = "T" /\ initPending["T"])
          => timers'["T"] = timers["T"] + 1]_vars
  /\ [][(last'.op = "Wakeup" /\ last'.self = "T")
          => /\ timers'["T"] = timers["T"]
             /\ timers["T"] > 0
             /\ called' = << <<"tick", 0>> >>
             /\ ticks'["T"] = (ticks["T"] + 1) % TickWrap]_vars
  /\ \A n \in 0..(TickWrap - 1) : []<>(ticks["T"] = n)

\* C17 witness: no message was sent from outside and the wakeups alone have
\* called tick TickWrap times
C17_Witness ==
  /\ sysPc = 1
  /\ last.op = "Wakeup" /\ last.self = "T"
  /\ ticks["T"] = 0
  /\ timers["T"] = 1

\* C26 as stated: once the looping actor handled its Init, exactly one wakeup
\* is scheduled whenever it is idle (between handlers), whatever wakeups and
\* user-defined messages it handled.
C26_OneWakeupOutstanding ==
  ("T" \in spawned /\ ~initPending["T"]) => timers["T"] = 1

\* C18: an Init handled by a component that already handled one raises
\* RuntimeError; __init_actor__ does not run again (no wakeup is scheduled, no
\* monitor is added, nothing is sent) and no field of the component changes.
C18_SecondInitIsFatal ==
  [][(last'.op = "Init" /\ ~initPending[last'.self]) =>
       /\ raised' = "RuntimeError"
       /\ out' = <<>>
       /\ called' = <<>>
       /\ UNCHANGED compVars
    ]_vars

\* C18 witness: a second Init reached the looping actor and was refused, its
\* one wakeup still scheduled
C18_Witness ==
  /\ last.op = "Init" /\ last.self = "T"
  /\ raised = "RuntimeError"
  /\ timers["T"] = 1
  /\ ~initPending["T"]

\* ------------------------------------------------- claims on the scenarios
Quiet == \A p \in Addr \X Comps : chan[p] = <<>>
InFlight(s, r, type) == \E i \in 1..Len(chan[<<s, r>>]) : chan[<<s, r>>][i].type = type

IsPrefix(a, b) == Len(a) <= Len(b) /\ \A i \in 1..Len(a) : a[i] = b[i]
IsSuffix(a, b) ==
  Len(a) <= Len(b) /\ \A i \in 1..Len(a) : a[i] = b[Len(b) - Len(a) + i]
IsInfix(a, b) ==
  \E k \in 0..(Len(b) - Len(a)) : \A i \in 1..Len(a) : a[i] = b[k + i]

\* C1 as stated: a component processes its Init before any other message, and
\* processes an Init only once: every handler run for another message finds
\* the Init done, every handler run for Init finds it pending.
C1_InitBeforeAnyOtherMessage ==
  [][(last'.op # "sys") =>
       (initPending[last'.self] <=> last'.op = "Init")
    ]_vars

\* the producer has not yet handled the Tick of the scenario
TickAhead(pc) == sysPc <= pc \/ InFlight(Sys, "P", "Tick")

\* C8 as stated: when scenario S2 has run to its end, K received 2, 4, 6.
S2Done == sysPc = 5 /\ Quiet
C8_CollectorReceivesAll == S2Done => acc["K"] = <<2, 4, 6>>

\* C8 amended: K receives values of 2, 4, 6 only, each at most once and in that
\* order; it ends with a suffix of 2, 4, 6, which is empty when P handles the
\* Tick before R's Subscribe; it ends with all of 2, 4, 6 when P holds R and R
\* holds K as subscribers before P handles the Tick.
C8_CollectorReceivesSuffix ==
  /\ [](IsInfix(acc["K"], <<2, 4, 6>>))
  /\ [](S2Done => IsSuffix(acc["K"], <<2, 4, 6>>))
  /\ ((/\ Occurs(subscribers["P"]["default"], "R")
       /\ Occurs(subscribers["R"]["default"], "K")
       /\ TickAhead(4))
        ~> (acc["K"] = <<2, 4, 6>>))

\* C8 witness: the run in which both subscriptions came first
C8_Witness == S2Done /\ acc["K"] = <<2, 4, 6>>

\* C9 as stated: once C called monitor and the Tick was sent, C's accumulator
\* eventually equals [1, 2, 3].
C9_AccumulatorEventuallyFull ==
  (sysPc = 4) ~> (acc["C"] = <<1, 2, 3>>)

\* C9 amended: C's accumulator eventually equals [1, 2, 3] when P handles C's
\* Subscribe before it handles the Tick (per-pair FIFO does not order the two);
\* in every run the accumulator is a prefix of [1, 2, 3].
C9_AccumulatorFullIfSubscribedFirst ==
  /\ [](IsPrefix(acc["C"], <<1, 2, 3>>))
  /\ ((Occurs(subscribers["P"]["default"], "C") /\ TickAhead(3))
        ~> (acc["C"] = <<1, 2, 3>>))

\* C9 witness: the accumulator is full
C9_Witness == sysPc = 4 /\ Quiet /\ acc["C"] = <<1, 2, 3>>

\* ------------------------------------- the ambient context of the handlers
\* The components of one process (a base that runs every actor in the process
\* of the ActorSystem): two actors, a reactor and a window.  A handler is three
\* steps here, so that the code a handler runs is a state of its own: it
\* begins (up to the `with` statement, if it has one), its user code calls
\* Ref.send, and it ends (return or exception).
CtxComps == {"P", "C", "R", "W"}
HandledTypes(self) ==
  IF Kind(self) = "actor"
  THEN {"Init", "Subscribe", "Unsubscribe", "Emit", "Wakeup", "Tick"}
  ELSE {"Init", "Subscribe", "Unsubscribe", "Emit", "ReactTo", "Tick"}

\* the handlers with a `with self._harpy_context` block that is reached:
\* BaseActor.receiveMsg_InitMsg (first Init), and Actor.receiveMsg_EmitMsg,
\* Actor.receiveMsg_WakeupMessage and Actor.receiveUnrecognizedMessage once
\* Init created the attribute
handler_with(self, type) ==
  \/ type = "Init" /\ initPending[self]
  \/ Kind(self) = "actor" /\ type \in {"Emit", "Wakeup", "Tick"} /\ ~initPending[self]

\* the handlers that raise before any body runs: a second Init (RuntimeError),
\* an actor's `with self._harpy_context` before Init (AttributeError), and
\* receiveUnrecognizedMessage of a reactor or window (RuntimeError)
handler_raises(self, type) ==
  IF type = "Init" THEN (IF initPending[self] THEN NoError ELSE "RuntimeError")
  ELSE IF Kind(self) = "actor" /\ type \in {"Emit", "Wakeup", "Tick"}
       THEN (IF initPending[self] THEN "AttributeError" ELSE NoError)
  ELSE IF type = "Tick" THEN "RuntimeError"
  ELSE NoError

\* the handlers that call user code: __init_actor__, an actor's callback and
\* receive, the pipeline build_dag built (subj.on_next for an Emit of a bound
\* stream, once Init built it) and the window's key, timestamp, add_to_window
\* and window_complete
runs_user_code(self, type) ==
  \/ type = "Init"
  \/ Kind(self) = "actor" /\ type \in {"Emit", "Wakeup", "Tick"}
  \/ Kind(self) = "reactor" /\ type = "Emit" /\ ~initPending[self]
  \/ Kind(self) = "window" /\ type = "Emit"

\* ActorContext.__enter__
enter(self) ==
  /\ prev' = [prev EXCEPT ![self] = ctx]
  /\ ctx' = self

\* ActorContext.__exit__
exit(self) ==
  /\ ctx' = prev[self]
  /\ prev' = [prev EXCEPT ![self] = None]

\* the handler of self starts on a message of the type given
HandlerBegin(self, type) ==
  /\ self \in spawned /\ running[self] = "idle"
  /\ type \in HandledTypes(self)
  /\ initPending' = IF type = "Init" THEN [initPending EXCEPT ![self] = FALSE]
                    ELSE initPending
  /\ IF handler_raises(self, type) # NoError
     THEN UNCHANGED <<ctx, prev, running, handling, before>>
     ELSE /\ running' = [running EXCEPT ![self] =
                           IF handler_with(self, type) THEN "with" ELSE "plain"]
          /\ handling' = [handling EXCEPT ![self] = type]
          /\ before' = [before EXCEPT ![self] = ctx]
          /\ IF handler_with(self, type) THEN enter(self) ELSE UNCHANGED <<ctx, prev>>
  /\ UNCHANGED <<spawned, subscribers, actorVars, reactorVars, windowVars, classVars,
                 loopVars, netVars, sysCtxVars, scriptVars, sentVia>>
  /\ Observe(self, Sys, Msg(type, "default", 0, None, None, None), <<>>, <<>>,
             handler_raises(self, type))

\* ActorRef.send / ReactorRef.react_to / WindowRef.react_to / BaseActor.spawn
\* called by the user code of the running handler: currentContext.ctx.send
UserCode(self) ==
  /\ running[self] # "idle" /\ runs_user_code(self, handling[self])
  /\ sentVia' = [self |-> self, ctx |-> ctx]
  /\ UNCHANGED <<compVars, netVars, sysCtxVars, scriptVars, obsVars,
                 ctx, prev, running, handling, before>>

\* the handler of self returns, or its user code raises: the `with` statement
\* runs __exit__ on both paths
HandlerEnd(self, err) ==
  /\ running[self] # "idle"
  /\ (err # NoError) => runs_user_code(self, handling[self])
  /\ IF running[self] = "with" THEN exit(self) ELSE UNCHANGED <<ctx, prev>>
  /\ running' = [running EXCEPT ![self] = "idle"]
  /\ handling' = [handling EXCEPT ![self] = None]
  /\ UNCHANGED <<compVars, netVars, sysCtxVars, scriptVars, before, sentVia>>
  /\ Observe(self, Sys, Msg("Return", "default", 0, None, None, None), <<>>, <<>>, err)

InitHandlers ==
  /\ InitComps(CtxComps) /\ InitObs /\ InitNet /\ InitEnv(TRUE)
  /\ InitClasses(MapReactor, FixedWindow(2, 0))

\* SpecHandlers: the handlers of the process run one after the other
NextHandlers ==
  \E self \in CtxComps :
    \/ \E type \in HandledTypes(self) :
         (\A c \in CtxComps : running[c] = "idle") /\ HandlerBegin(self, type)
    \/ UserCode(self)
    \/ \E err \in {NoError, "Exception"} : HandlerEnd(self, err)

SpecHandlers == InitHandlers /\ [][NextHandlers]_vars

\* C21 as stated, for the handlers that run user code: the Ref.send of the
\* code a handler of a component runs goes through that component's context,
\* and when the handler ends, by return or by exception, the current context
\* is the one that was current when it began.
C21_HandlerRunsUnderOwnContext ==
  /\ [](sentVia.self # None => sentVia.ctx = sentVia.self)
  /\ [][\A c \in CtxComps :
          (running[c] # "idle" /\ running'[c] = "idle") => ctx' = before[c]]_vars

\* SpecContext: the handlers of different components of the process overlap
\* (each component still handles one message at a time); currentContext is
\* one module-level object of the process, shared by all of them
OverlapComps == {"P", "R"}

InitOverlap ==
  /\ InitComps(OverlapComps) /\ InitObs /\ InitNet /\ InitEnv(TRUE)
  /\ InitClasses(MapReactor, FixedWindow(2, 0))

NextContext ==
  \E self \in OverlapComps :
    \/ \E type \in HandledTypes(self) : HandlerBegin(self, type)
    \/ UserCode(self)
    \/ \E err \in {NoError, "Exception"} : HandlerEnd(self, err)

SpecContext == InitOverlap /\ [][NextContext]_vars

\* C22 as stated, for the handlers that push their context: a Ref.send of the
\* code running inside the with block of a component goes through that
\* component's context whatever the other components do meanwhile, and once
\* no handler runs the current context is the system context.
C22_ContextsDoNotAlias ==
  /\ (sentVia.self # None /\ running[sentVia.self] = "with"
        => sentVia.ctx = sentVia.self)
  /\ ((\A c \in OverlapComps : running[c] = "idle") => ctx = Sys)

\* --------------------------- SpecBind: two sources bound to one stream
\* P = producer.spawn(); R = reactor.spawn(), a reactor with the sources x and
\* y; R.react_to(P, "x"); R.react_to(P, "y"); P.send(EmitCmd(1)), on which P
\* runs emit(1) once.  The run records each emit of P with the subscriber
\* list it met, and each value R pushed into a source.
InitBind ==
  /\ InitComps({}) /\ InitObs /\ InitNet /\ InitEnv(FALSE)
  /\ InitClasses(TwoSourceReactor, FixedWindow(2, 0))

SysBind ==
  \/ spawn(0, "P", None, "default")
  \/ spawn(1, "R", None, "default")
  \/ react_to(2, "R", "P", "x", "default")
  \/ react_to(3, "R", "P", "y", "default")
  \/ ref_send(4, "P", EmitCmd(1, "default"))

EmitEntry(r, msg) ==
  [kind |-> "emit", source |-> None, value |-> msg.value,
   subs |-> subscribers[r][msg.stream]]
PushEntries(calls) ==
  [i \in 1..Len(calls) |->
     [kind |-> "push", source |-> calls[i][1], value |-> calls[i][2], subs |-> <<>>]]

DeliverEmitCmd(s, r) ==
  /\ Ready(s, r, {"EmitCmd"}) /\ Kind(r) = "actor"
  /\ ActorReceiveUnrecognizedMessage(r, s, Head(chan[<<s, r>>]))
  /\ RouteLogged(s, r, IF initPending[r] THEN <<>>
                       ELSE <<EmitEntry(r, Head(chan[<<s, r>>]))>>)

DeliverReactorEmitLogged(s, r) ==
  /\ Ready(s, r, {"Emit"}) /\ Kind(r) = "reactor"
  /\ ReactorReceiveMsg_EmitMsg(r, s, Head(chan[<<s, r>>]))
  /\ RouteLogged(s, r, PushEntries(pushed'))

DeliverBind(s, r) ==
  \/ DeliverInit(s, r)
  \/ DeliverSubscribe(s, r)
  \/ DeliverReactorReactTo(s, r)
  \/ DeliverEmitCmd(s, r)
  \/ DeliverReactorEmitLogged(s, r)

NextBind == SysBind \/ \E s \in Addr, r \in Comps : DeliverBind(s, r)

SpecBind == InitBind /\ [][NextBind]_vars

Pushes(source, value) ==
  Cardinality({i \in 1..Len(hist) :
                 /\ hist[i].kind = "push"
                 /\ hist[i].source = source /\ hist[i].value = value})

\* C25 as stated: when P ran its one emit(1) with both Subscribes of R in its
\* list (R bound x and y to P's "default"), then, all messages handled, R
\* pushed 1 into x exactly once and into y exactly once.
C25_OnePushPerSource ==
  (/\ sysPc = 5 /\ Quiet
   /\ \E i \in 1..Len(hist) : hist[i].kind = "emit" /\ hist[i].subs = <<"R", "R">>)
    => (Pushes("x", 1) = 1 /\ Pushes("y", 1) = 1)

\* ------------------------------ SpecQuiet: subscriptions seen from both ends
\* P = producer.spawn(); C = an actor; R = a reactor with source x; W = a
\* window; W.react_to(P); then C is sent, one after the other, a message on
\* which it runs monitor(P, f), one on which it runs R.react_to(P, "x") and
\* one on which it runs unmonitor(P).  Messages travel FIFO per pair.
SysQuiet ==
  \/ spawn(0, "P", None, "default")
  \/ spawn(1, "C", None, "default")
  \/ spawn(2, "R", None, "default")
  \/ spawn(3, "W", None, "default")
  \/ SysStep(4, <<Send("W", ReactToMsg("P", None, "default"))>>, {})
  \/ ref_send(5, "C", MonitorCmd("P", "f", "default"))
  \/ ref_send(6, "C", ReactCmd("R", "P", "x", "default"))
  \/ ref_send(7, "C", UnmonitorCmd("P", "default"))

DeliverUnsubscribe(s, r) ==
  /\ Ready(s, r, {"Unsubscribe"})
  /\ receiveMsg_UnsubscribeMsg(r, s, Head(chan[<<s, r>>]))
  /\ Route(s, r)

DeliverCommand(s, r) ==
  /\ Ready(s, r, {"MonitorCmd", "UnmonitorCmd", "ReactCmd"}) /\ Kind(r) = "actor"
  /\ ActorReceiveUnrecognizedMessage(r, s, Head(chan[<<s, r>>]))
  /\ Route(s, r)

DeliverWindowReactTo(s, r) ==
  /\ Ready(s, r, {"ReactTo"}) /\ Kind(r) = "window"
  /\ WindowReceiveMsg_ReactToMsg(r, s, Head(chan[<<s, r>>]))
  /\ Route(s, r)

DeliverQuiet(s, r) ==
  \/ DeliverInit(s, r)
  \/ DeliverSubscribe(s, r)
  \/ DeliverUnsubscribe(s, r)
  \/ DeliverCommand(s, r)
  \/ DeliverReactorReactTo(s, r)
  \/ DeliverWindowReactTo(s, r)

NextQuiet == SysQuiet \/ \E s \in Addr, r \in Comps : DeliverQuiet(s, r)

SpecQuiet == InitScenario /\ [][NextQuiet]_vars

\* what d recorded for the stream s of u: monitoring triples (u, s, *) of an
\* actor, bindings (u, s) of a reactor or a window
Recorded(d, u, s) ==
  IF Kind(d) = "actor"
  THEN Cardinality({i \in 1..Len(monitoring[d]) :
                      monitoring[d][i][1] = u /\ monitoring[d][i][2] = s})
  ELSE Cardinality({i \in 1..Len(subscriptions[d]) :
                      subscriptions[d][i][1] = u /\ subscriptions[d][i][2] = s})

NoneInFlight(types) ==
  \A p \in Addr \X Comps : \A i \in 1..Len(chan[p]) : chan[p][i].type \notin types

\* C27 as stated: with no Subscribe, Unsubscribe or ReactTo in flight, d occurs
\* in subscribers[s] of u as often as d recorded (u, s).
C27_QuiescentConsistency ==
  NoneInFlight({"Subscribe", "Unsubscribe", "ReactTo"}) =>
    \A d \in Comps, u \in Comps, s \in Streams :
      Count(subscribers[u][s], d) = Recorded(d, u, s)

====
